---------------------------- MODULE Spec2Model ----------------------------
(***************************************************************************)
(* Model of the fluent-builder enforcement wrapper                         *)
(* (src/src/builder-factory.ts): createBuilder's Proxy handler, the        *)
(* closures it returns, and the factory helpers, run against an inner      *)
(* builder class assembled from the classes of the tests and examples.     *)
(*                                                                         *)
(* JavaScript values are records tagged by the field t.  Member names are  *)
(* strings, so that startsWith and the error messages are computed as the  *)
(* code computes them.                                                     *)
(***************************************************************************)
EXTENDS Integers, Sequences, FiniteSets, TLC

(***************************************************************************)
(* Bounds of the model.                                                    *)
(***************************************************************************)
MaxViews == 3       \* Proxy objects created: factory results and chain results

(***************************************************************************)
(* Inputs.                                                                 *)
(***************************************************************************)
\* Arguments passed to chain methods; the inner builder rejects "".
Args == {"a", "b", ""}

\* Names the factories are configured with as the finalize method.
BuildMethods == {"build", "withResult"}

\* Member names accessed on a wrapped builder.
Props ==
    {"withValue", "addTag", "options", "meta", "sizes", "_value", "parent",
     "build", "withResult"}

\* Property keys handed to the get trap: strings and one symbol.
PropKeys ==
    {[t |-> "string", s |-> p] : p \in Props} \cup {[t |-> "symbol", s |-> "iterator"]}

(***************************************************************************)
(* JavaScript values.                                                      *)
(***************************************************************************)
Undefined == [t |-> "undefined"]

Null == [t |-> "null"]

Str(s) == [t |-> "string", s |-> s]

Num(n) == [t |-> "number", n |-> n]

\* A function of the inner builder; group is "" for a method of the class.
Fn(group, name) == [t |-> "function", c |-> "inner", group |-> group, name |-> name]

\* An object as the ordered list of its enumerable own properties.
Obj(entries) == [t |-> "object", c |-> "plain", entries |-> entries]

Entry(key, val) == [key |-> key, val |-> val]

\* typeof: null is an object.
TypeOf(value) ==
    IF value.t = "null" THEN "object" ELSE value.t

HasKey(value, key) == \E i \in 1..Len(value.entries) : value.entries[i].key = key

\* value[key]
Lookup(value, key) ==
    IF HasKey(value, key)
    THEN value.entries[CHOOSE i \in 1..Len(value.entries) : value.entries[i].key = key].val
    ELSE Undefined

\* String.prototype.startsWith
StartsWith(s, prefix) ==
    /\ Len(s) >= Len(prefix)
    /\ SubSeq(s, 1, Len(prefix)) = prefix

\* Number-to-string of an array index.
IndexKey(i) == <<"0", "1", "2", "3", "4", "5", "6", "7", "8", "9">>[i + 1]

Error(message) == [name |-> "Error", message |-> message]

(***************************************************************************)
(* The inner builder class: withValue (one-time), addTag (repeatable), the *)
(* group options {enable, disable}, the data fields meta (an object with   *)
(* a number and a function member), sizes (array), _value (string),        *)
(* parent (null), and the two zero-argument                                *)
(* result methods build and withResult: the one the factory is not         *)
(* configured with is an ordinary member (build: neither prefix;           *)
(* withResult: one-time).  Every chain method pushes an entry on log, as   *)
(* the test builders do, and rejects an empty argument.                    *)
(***************************************************************************)
\* new cls(...args)
NewInstance == [value |-> "", log |-> <<>>]

\* An array as an object: keys "0", "1", ...
ArrayObj(seq) ==
    [t |-> "object", c |-> "array",
     entries |-> [i \in 1..Len(seq) |-> Entry(IndexKey(i - 1), seq[i])]]

SizesArray == ArrayObj(<<Str("large")>>)

OptionsGroup == Obj(<<Entry("enable", Fn("options", "enable")),
                      Entry("disable", Fn("options", "disable"))>>)

MetaObject == Obj(<<Entry("version", Num(1)), Entry("bump", Fn("meta", "bump"))>>)

ClassMethods == {"withValue", "addTag", "build", "withResult"}

\* target[prop]
Member(inst, prop) ==
    CASE prop \in ClassMethods -> Fn("", prop)
      [] prop = "options" -> OptionsGroup
      [] prop = "meta" -> MetaObject
      [] prop = "sizes" -> SizesArray
      [] prop = "_value" -> Str(inst.value)
      [] prop = "parent" -> Null
      [] OTHER -> Undefined

\* What build() and withResult() return.
Result(inst) == [t |-> "result", value |-> inst.value, log |-> inst.log]

Returned(inst, ret) == [threw |-> FALSE, inst |-> inst, ret |-> ret, error |-> Error("")]

Threw(inst, error) == [threw |-> TRUE, inst |-> inst, ret |-> Undefined, error |-> error]

NotAFunction == [name |-> "TypeError", message |-> "value[key] is not a function"]

InnerFailure == [name |-> "RangeError", message |-> "empty argument"]

This == [t |-> "this"]

\* An element of this.log: an object naming the function that ran and the
\* argument it kept.
LogEntry(name, arg) == [t |-> "object", c |-> "entry", name |-> name, arg |-> arg]

\* The body of an inner function run on inst with one argument: the instance
\* afterwards and what the call returned or threw.
InnerApply(inst, fn, arg) ==
    IF TypeOf(fn) # "function" THEN Threw(inst, NotAFunction)
    ELSE IF fn.group = "" /\ fn.name \in {"build", "withResult"}
    THEN Returned(inst, Result(inst))
    ELSE IF fn.group = "meta" THEN Returned(inst, This)
    ELSE IF arg = "" THEN Threw(inst, InnerFailure)
    ELSE IF fn.group = "" /\ fn.name = "withValue"
    THEN Returned([value |-> arg, log |-> Append(inst.log, LogEntry(fn.name, arg))], This)
    ELSE IF fn.group = ""
    THEN Returned([inst EXCEPT !.log = Append(@, LogEntry(fn.name, arg))], This)
    ELSE Returned([inst EXCEPT !.log = Append(@, LogEntry(fn.name, ""))], Undefined)


(***************************************************************************)
(* State.                                                                  *)
(***************************************************************************)
VARIABLES
    instances,   \* heap of inner builders: instances[i] is the i-th `new cls()`
    handlers,    \* heap of handlers: [buildMethod, called] closed over by handler h
    views,       \* heap of Proxy objects: [target, handler, lineage]
    held,        \* the closure or group proxy the caller keeps in a variable
    hist,        \* history: per lineage, the members whose chain call returned, in order
    expect,      \* history: per lineage, a builder given the returned chain calls in order
    last         \* history: the latest construction, call or rejected access

vars == <<instances, handlers, views, held, hist, expect, last>>

Return(value) == [k |-> "return", value |-> value, error |-> Error("")]

Throw(error) == [k |-> "throw", value |-> Undefined, error |-> error]

\* A reference to the Proxy object views[id].
ProxyRef(id) == [t |-> "proxy", id |-> id]

\* Mutant: one handler (and called set) serves every builder.
NewProxy_FirstHandler(target, handler, lineage) ==
    [target |-> target, handler |-> 1, lineage |-> lineage]

\* new Proxy(target, handler); lineage is the factory invocation the view
\* descends from (history, not read by the program).
NewProxy(target, handler, lineage) ==
    [target |-> target, handler |-> handler, lineage |-> lineage]

\* Mutant: the view a chain call returns is bound to the first builder made.
ChainView_FirstBuilder(f) == NewProxy(1, 1, f.lineage)

\* return new Proxy(target, handler) of a chain closure.
ChainView(f) == NewProxy(f.target, f.handler, f.lineage)

\* An entry of hist: the member called, and the group member for a group.
Used(prop, member) == [prop |-> prop, member |-> member]

\* (...args) => { value.apply(target, args); if (isOneTime) called.add(prop); ... }
MethodClosure(target, handler, prop, isOneTime, lineage) ==
    [t |-> "function", c |-> "method", target |-> target, handler |-> handler,
     prop |-> prop, key |-> "", isOneTime |-> isOneTime, lineage |-> lineage]

\* Mutant: the finalize name gets the closure of an ordinary method.
BuildClosure_AsMethod(target, handler, prop, lineage) ==
    MethodClosure(target, handler, prop, StartsWith(prop, "with"), lineage)

\* () => target[prop]()
BuildClosure(target, handler, prop, lineage) ==
    [t |-> "function", c |-> "build", target |-> target, handler |-> handler,
     prop |-> prop, key |-> "", isOneTime |-> FALSE, lineage |-> lineage]

\* (...args) => { value[key](...args); called.add(prop); ... }
GroupClosure(target, handler, prop, key, lineage) ==
    [t |-> "function", c |-> "group", target |-> target, handler |-> handler,
     prop |-> prop, key |-> key, isOneTime |-> FALSE, lineage |-> lineage]

\* groupProxy: one closure per key of the for-in loop over value.
GroupProxy(target, handler, prop, value, lineage) ==
    [t |-> "object", c |-> "groupProxy",
     entries |-> [i \in 1..Len(value.entries) |->
                     Entry(value.entries[i].key,
                           GroupClosure(target, handler, prop, value.entries[i].key, lineage))]]

MethodAlreadyCalled(prop) == Error("Method '" \o prop \o "' already called")

GroupAlreadyUsed(prop) == Error("Group '" \o prop \o "' already used")

\* Mutant: every method counts as one-time.
IsOneTime_Always(prop) == TRUE

\* prop.startsWith('with')
IsOneTime(prop) == StartsWith(prop, "with")

\* Mutant: the finalize name is classified like every other member.
HandlerGet_NoFinalizeCase(view, key) ==
    LET target == view.target
        h == view.handler
        called == handlers[h].called
        prop == key.s
        value == Member(instances[target], prop)
    IN  IF key.t # "string" THEN Return(Undefined)
        ELSE IF TypeOf(value) = "function"
        THEN IF IsOneTime(prop) /\ prop \in called
             THEN Throw(MethodAlreadyCalled(prop))
             ELSE Return(MethodClosure(target, h, prop, IsOneTime(prop), view.lineage))
        ELSE IF TypeOf(value) = "object" /\ value # Null
        THEN IF prop \in called
             THEN Throw(GroupAlreadyUsed(prop))
             ELSE Return(GroupProxy(target, h, prop, value, view.lineage))
        ELSE Return(value)

\* The get trap of the handler, for an access through the view `view`.
HandlerGet(view, key) ==
    LET target == view.target
        h == view.handler
        buildMethod == handlers[h].buildMethod
        called == handlers[h].called
        prop == key.s
        value == Member(instances[target], prop)
    IN  IF key.t # "string" THEN Return(Undefined)
        ELSE IF prop = buildMethod
        THEN Return(BuildClosure(target, h, prop, view.lineage))
        ELSE IF TypeOf(value) = "function"
        THEN IF IsOneTime(prop) /\ prop \in called
             THEN Throw(MethodAlreadyCalled(prop))
             ELSE Return(MethodClosure(target, h, prop, IsOneTime(prop), view.lineage))
        ELSE IF TypeOf(value) = "object" /\ value # Null
        THEN IF prop \in called
             THEN Throw(GroupAlreadyUsed(prop))
             ELSE Return(GroupProxy(target, h, prop, value, view.lineage))
        ELSE Return(value)

\* Mutant: the method closure never records the call.
CalledAfterMethod_Never(called, prop, isOneTime) == called

\* Mutant: the method closure records every call.
CalledAfterMethod_Always(called, prop, isOneTime) == called \cup {prop}

\* if (isOneTime) called.add(prop) of the method closure.
CalledAfterMethod(called, prop, isOneTime) ==
    IF isOneTime THEN called \cup {prop} ELSE called

\* Mutant: the group closure records the member, not the group.
CalledAfterGroup_Member(called, prop, key) == called \cup {key}

\* called.add(prop) of the closure of the group member key.
CalledAfterGroup(called, prop, key) == called \cup {prop}

\* Values the caller can keep and invoke later.
Holdable(value) ==
    \/ value.t = "function"
    \/ value.t = "object" /\ value.c = "groupProxy"

Op(op, lineage, prop, member, outcome) ==
    [op |-> op, lineage |-> lineage, prop |-> prop, member |-> member,
     outcome |-> outcome]

Init ==
    /\ instances = <<>>
    /\ handlers = <<>>
    /\ views = <<>>
    /\ held = Undefined
    /\ hist = <<>>
    /\ expect = <<>>
    /\ last = Op("init", 0, "", "", Return(Undefined))

(***************************************************************************)
(* Construction and the factory helpers.                                   *)
(***************************************************************************)
\* The closure a factory helper returns: it closes over cls and buildMethod.
FactoryClosure(buildMethod) == [cls |-> "Builder", buildMethod |-> buildMethod]

Cls == [t |-> "function", c |-> "class", name |-> "Builder"]

\* createBuilderFactory(...args): args is <<cls>> or <<method, cls>>.
FactoryOf(args) ==
    IF TypeOf(args[1]) = "function"
    THEN FactoryClosure("build")
    ELSE FactoryClosure(args[1].s)

\* createBuilder(cls, buildMethod): one instance, one Call-State, one view.
CreateBuilder(op, f) ==
    /\ Len(views) < MaxViews
    /\ instances' = Append(instances, NewInstance)
    /\ handlers' = Append(handlers, [buildMethod |-> f.buildMethod, called |-> {}])
    /\ views' = Append(views, NewProxy(Len(instances) + 1, Len(handlers) + 1, Len(hist) + 1))
    /\ hist' = Append(hist, <<>>)
    /\ expect' = Append(expect, NewInstance)
    /\ last' = Op(op, Len(hist) + 1, "", "", Return(ProxyRef(Len(views) + 1)))
    /\ UNCHANGED held

\* createBuilderFactory(...args)(): the factory closure holds no state of its
\* own, so making it and invoking it are one step.
CreateBuilderFactory(args) == CreateBuilder("createBuilderFactory", FactoryOf(args))

\* createBuilderFactoryFor(cls, buildMethod)()
CreateBuilderFactoryFor(buildMethod) ==
    CreateBuilder("createBuilderFactoryFor", FactoryClosure(buildMethod))

(***************************************************************************)
(* The closures the get trap returns, invoked.                             *)
(***************************************************************************)
\* The inner function a closure runs: target[prop] for the finalize closure,
\* the captured value for a method closure, value[key] for a group closure.
Callee(f) ==
    IF f.c = "group"
    THEN Lookup(Member(instances[f.target], f.prop), f.key)
    ELSE Member(instances[f.target], f.prop)

\* The inner call a closure makes; the finalize closure passes no argument.
Run(f, arg) == InnerApply(instances[f.target], Callee(f), IF f.c = "build" THEN "" ELSE arg)

\* Mutant: the closure catches the inner failure and throws its own error.
OutcomeOf_Generic(f, r) ==
    IF r.threw THEN Throw(Error("Call failed"))
    ELSE IF f.c = "build" THEN Return(r.ret)
    ELSE Return(ProxyRef(Len(views) + 1))

\* Mutant: a chain call hands the inner method's return value to the caller.
OutcomeOf_InnerReturn(f, r) ==
    IF r.threw THEN Throw(r.error) ELSE Return(r.ret)

\* What the invoked closure gives its caller: the inner failure, the inner
\* result (finalize), or a new Proxy (chain call).
OutcomeOf(f, r) ==
    IF r.threw THEN Throw(r.error)
    ELSE IF f.c = "build" THEN Return(r.ret)
    ELSE Return(ProxyRef(Len(views) + 1))

\* The outcome of calling the closure f with arg in the current state.
RunOutcome(f, arg) == OutcomeOf(f, Run(f, arg))

\* The called set after the closure's inner call returned.
CalledAfter(f, called) ==
    IF f.c = "group" THEN CalledAfterGroup(called, f.prop, f.key)
    ELSE CalledAfterMethod(called, f.prop, f.isOneTime)

\* () => target[prop](): nothing but the inner builder can change.  The
\* caller makes no call once MaxViews views exist.
BuildStep(f) ==
    \E r \in {Run(f, "")} :
        /\ Len(views) < MaxViews
        /\ instances' = [instances EXCEPT ![f.target] = r.inst]
        /\ last' = Op("build", f.lineage, f.prop, "", OutcomeOf(f, r))
        /\ UNCHANGED <<handlers, views, hist, expect>>

\* The closure of a method (lines 39-43) or of a group proxy (lines 53-57),
\* called with one argument.
ChainStep(f, arg) ==
    \E r \in {Run(f, arg)} :
        /\ Len(views) < MaxViews
        /\ instances' = [instances EXCEPT ![f.target] = r.inst]
        /\ last' = Op("call", f.lineage, f.prop, f.key, OutcomeOf(f, r))
        /\ IF r.threw
           THEN UNCHANGED <<handlers, views, hist, expect>>
           ELSE /\ handlers' = [handlers EXCEPT ![f.handler].called = CalledAfter(f, @)]
                /\ views' = Append(views, ChainView(f))
                /\ hist' = [hist EXCEPT ![f.lineage] = Append(@, Used(f.prop, f.key))]
                /\ expect' = [expect EXCEPT ![f.lineage] =
                                 InnerApply(@, Callee(f), arg).inst]

\* The indices of the closures of a group proxy.
GroupIndices(g) ==
    IF g.t = "object" /\ g.c = "groupProxy" THEN 1..Len(g.entries) ELSE {}

\* Mutant: a rejected access releases the name it was rejected for.
Rejected_Forgets(view, key, out) ==
    /\ last' = Op("call", view.lineage, key.s, "", out)
    /\ handlers' = [handlers EXCEPT ![view.handler].called = @ \ {key.s}]
    /\ UNCHANGED <<instances, views, hist, expect>>

\* A rejected access: the get trap threw.
Rejected(view, key, out) ==
    /\ last' = Op("call", view.lineage, key.s, "", out)
    /\ UNCHANGED <<instances, handlers, views, hist, expect>>

\* The outcome of view[key](arg) in the current state.
CallOutcome(view, key, arg) ==
    LET out == HandlerGet(view, key)
    IN  IF out.k = "throw" THEN out
        ELSE IF out.value.t = "function" THEN RunOutcome(out.value, arg)
        ELSE [k |-> "notCallable", value |-> out.value, error |-> Error("")]

\* The outcome of view[key][member](arg) for the i-th member of the proxy.
GroupCallOutcome(view, key, i, arg) ==
    RunOutcome(HandlerGet(view, key).value.entries[i].val, arg)

(***************************************************************************)
(* The caller's operations.                                                *)
(***************************************************************************)
\* const f = view[key]: the trap changes nothing; the caller keeps a closure
\* or a group proxy it returns.
Get(view, key) ==
    \E out \in {HandlerGet(view, key)} :
        /\ out.k = "return" /\ Holdable(out.value)
        /\ held' = out.value
        /\ UNCHANGED <<instances, handlers, views, hist, expect, last>>

\* view[key](arg) for some argument: the access is rejected, or the closure
\* it returns is called: the finalize closure view[key](), or a chain call.
Call(view, key) ==
    \E out \in {HandlerGet(view, key)} :
        /\ UNCHANGED held
        /\ IF out.k = "throw" THEN Rejected(view, key, out)
           ELSE /\ out.value.t = "function"
                /\ IF out.value.c = "build"
                   THEN BuildStep(out.value)
                   ELSE \E arg \in Args : ChainStep(out.value, arg)

\* view[key][member](arg) for some member of the group proxy and argument.
CallGroup(view, key) ==
    /\ Len(views) < MaxViews
    /\ \E out \in {HandlerGet(view, key)} :
          /\ out.k = "return"
          /\ \E i \in GroupIndices(out.value), arg \in Args :
                ChainStep(out.value.entries[i].val, arg)
    /\ UNCHANGED held

\* f(arg) for the kept closure f and some argument.
Invoke ==
    /\ held.t = "function"
    /\ IF held.c = "build" THEN BuildStep(held)
       ELSE \E arg \in Args : ChainStep(held, arg)
    /\ UNCHANGED held

\* g[member](arg) for the kept group proxy g, some member and argument.
InvokeGroup ==
    /\ \E i \in GroupIndices(held), arg \in Args : ChainStep(held.entries[i].val, arg)
    /\ UNCHANGED held

\* The distinct views: views of equal target, handler and lineage answer alike.
Views == {views[v] : v \in 1..Len(views)}

Next ==
    \/ \E bm \in BuildMethods : CreateBuilderFactory(<<Str(bm), Cls>>)
    \/ CreateBuilderFactory(<<Cls>>)
    \/ \E bm \in BuildMethods : CreateBuilderFactoryFor(bm)
    \/ \E view \in Views, key \in PropKeys : Get(view, key)
    \/ \E view \in Views, key \in PropKeys : Call(view, key)
    \/ \E view \in Views, key \in PropKeys : CallGroup(view, key)
    \/ Invoke
    \/ InvokeGroup

Spec == Init /\ [][Next]_vars

-----------------------------------------------------------------------------
(* Vocabulary of the properties.  A lineage is one factory invocation; its   *)
(* inner builder and call state are the ones that invocation created.        *)

Lineages == 1..Len(hist)
Key(p) == [t |-> "string", s |-> p]
FinalizeName(l) == handlers[l].buildMethod
OneTimeNames(l) == {"withValue", "withResult"} \ {FinalizeName(l)}
RepeatableNames(l) == {"addTag", "build"} \ {FinalizeName(l)}
GroupNames == {"options"}
GroupMembers == {"enable", "disable"}
DataNames == {"meta", "sizes", "_value", "parent"}
GoodArgs == Args \ {""}
Consumed(l) == {hist[l][i].prop : i \in 1..Len(hist[l])}
Times(l, name) == Cardinality({i \in 1..Len(hist[l]) : hist[l][i].prop = name})
Executions(l, names) ==
    Cardinality({i \in 1..Len(instances[l].log) : instances[l].log[i].name \in names})
AlreadyCalled(m) ==
    IF m = "withValue" THEN [name |-> "Error", message |-> "Method 'withValue' already called"]
    ELSE [name |-> "Error", message |-> "Method 'withResult' already called"]
AlreadyUsed == [name |-> "Error", message |-> "Group 'options' already used"]
DisciplineErrors == {AlreadyCalled("withValue"), AlreadyCalled("withResult"), AlreadyUsed}
Failed(error) == [k |-> "throw", value |-> [t |-> "undefined"], error |-> error]
NextView == [t |-> "proxy", id |-> Len(views) + 1]
Succeeded(value) == [k |-> "return", value |-> value, error |-> [name |-> "Error", message |-> ""]]
Finalized(inst) == Succeeded([t |-> "result", value |-> inst.value, log |-> inst.log])
Finalize(view) == CallOutcome(view, Key(FinalizeName(view.lineage)), "")

\* C1: once a one-time method m has been called in a lineage, calling m
\* through any view of that lineage fails with "Method 'm' already called",
\* whatever the argument.
C1_SecondCallRejected ==
    \A view \in Views : \A m \in OneTimeNames(view.lineage) \cap Consumed(view.lineage) :
        \A arg \in Args : CallOutcome(view, Key(m), arg) = Failed(AlreadyCalled(m))

C1_Witness ==
    /\ last.op = "call"
    /\ last.prop = "withValue"
    /\ last.outcome = Failed(AlreadyCalled("withValue"))
    /\ Times(last.lineage, "withValue") = 1

\* C2: once a method of a group has been invoked in a lineage, reaching the
\* group through any view of that lineage fails with "Group 'g' already
\* used", before any member of the group is selected.
C2_GroupReuseRejected ==
    \A view \in Views : \A g \in GroupNames \cap Consumed(view.lineage) :
        HandlerGet(view, Key(g)) = Failed(AlreadyUsed)

C2_Witness ==
    /\ last.op = "call"
    /\ last.prop = "options"
    /\ last.outcome = Failed(AlreadyUsed)
    /\ hist[last.lineage] = <<Used("options", "enable")>>

\* C3 (state part): a call of a repeatable method is never rejected with a
\* discipline error, and the finalize result reflects every call dispatched
\* so far, in order.
C3_RepeatableState ==
    \A view \in Views :
        /\ \A m \in RepeatableNames(view.lineage), arg \in Args :
              CallOutcome(view, Key(m), arg) \in
                  {Succeeded(NextView), Failed(InnerFailure)}
        /\ \A m \in RepeatableNames(view.lineage), arg \in GoodArgs :
              CallOutcome(view, Key(m), arg) = Succeeded(NextView)

C3_RepeatableStep ==
    LET l == last'.lineage
    IN  (last' # last /\ last'.op = "call" /\ last'.prop \in RepeatableNames(l))
        => /\ handlers' = handlers
           /\ last'.outcome \in {Succeeded(NextView), Failed(InnerFailure)}
           /\ last'.outcome.k = "return" =>
                 /\ hist'[l] = Append(hist[l], Used(last'.prop, ""))
                 /\ IF last'.prop = "addTag"
                    THEN \E arg \in GoodArgs :
                           instances'[l] =
                               [instances[l] EXCEPT !.log = Append(@, LogEntry("addTag", arg))]
                    ELSE instances'[l] = instances[l]

\* C3: repeatable methods are never rejected, never change the call state,
\* and each call is dispatched to the inner builder, in call order.
C3_Repeatable == []C3_RepeatableState /\ [][C3_RepeatableStep]_vars

C3_Witness ==
    \E l \in Lineages :
        /\ hist[l] = <<Used("addTag", ""), Used("addTag", "")>>
        /\ instances[l].log = <<LogEntry("addTag", "a"), LogEntry("addTag", "b")>>
        /\ handlers[l].called = {}

\* C4: a one-time method of the inner builder is executed at most once per
\* lineage, also through a method reference obtained earlier and kept.
C4_ExecutedAtMostOnce ==
    \A l \in Lineages : Executions(l, {"withValue"}) <= 1

\* C5: at most one method of a group is dispatched to the inner builder per
\* lineage, also through a group reference obtained earlier and kept.
C5_GroupDispatchedAtMostOnce ==
    \A l \in Lineages : Executions(l, GroupMembers) <= 1

C6_FinalizeState ==
    \A view \in Views :
        /\ Finalize(view) = Finalized(instances[view.lineage])
        /\ FinalizeName(view.lineage) \notin handlers[view.lineage].called

C6_FinalizeStep ==
    (last' # last /\ last'.op = "build")
    => /\ handlers' = handlers
       /\ instances' = instances
       /\ last'.prop = FinalizeName(last'.lineage)
       /\ last'.outcome = Finalized(instances[last'.lineage])

\* C6: finalize is never rejected, never changes the call state, and returns
\* the inner builder's finalize result for its current state, however often
\* it is called.
C6_Finalize == []C6_FinalizeState /\ [][C6_FinalizeStep]_vars

C6_Witness ==
    /\ last.op = "build"
    /\ last.prop = "withResult"
    /\ hist[last.lineage] = <<Used("withValue", "")>>
    /\ last.outcome = Finalized([value |-> "b", log |-> <<LogEntry("withValue", "b")>>])

\* C7: all views of a lineage are bound to the same inner builder and the
\* same call state: a consumption made through one view is seen by every
\* view, and finalize through any view returns the effects of all of them.
C7_SharedLineage ==
    \A v \in Views :
        /\ \A w \in Views : v.lineage = w.lineage =>
              /\ v.target = w.target
              /\ v.handler = w.handler
              /\ \A key \in PropKeys : HandlerGet(v, key) = HandlerGet(w, key)
        /\ \A n \in (OneTimeNames(v.lineage) \cup GroupNames) \cap Consumed(v.lineage) :
              HandlerGet(v, Key(n)).k = "throw"
        /\ Finalize(v) = Finalized(expect[v.lineage])

C7_Witness ==
    /\ Len(hist) = 2
    /\ hist[2] = <<Used("withValue", "")>>
    /\ Cardinality({v \in 1..Len(views) : views[v].lineage = 2}) = 2
    /\ expect[2].value = "a"

\* C8: in a chain of one-time, repeatable and group calls, a call is
\* rejected only for a one-time method or group already consumed in the
\* lineage; every other well-formed call succeeds, and a chain using each
\* one-time method and group at most once finalizes to the effects of its
\* calls.
C8_NoSpuriousRejection ==
    \A view \in Views :
        LET l == view.lineage
        IN  Consumed(l) \subseteq OneTimeNames(l) \cup RepeatableNames(l) \cup GroupNames =>
            /\ \A key \in PropKeys :
                  HandlerGet(view, key).k = "throw" =>
                      key.s \in (OneTimeNames(l) \cup GroupNames) \cap Consumed(l)
            /\ \A m \in (OneTimeNames(l) \cup RepeatableNames(l)) \ Consumed(l), arg \in GoodArgs :
                  CallOutcome(view, Key(m), arg) = Succeeded(NextView)
            /\ \A g \in GroupNames \ Consumed(l), arg \in GoodArgs :
                  /\ GroupIndices(HandlerGet(view, Key(g)).value) = 1..Cardinality(GroupMembers)
                  /\ \A i \in 1..Cardinality(GroupMembers) :
                        GroupCallOutcome(view, Key(g), i, arg) = Succeeded(NextView)
            /\ (\A n \in OneTimeNames(l) \cup GroupNames : Times(l, n) <= 1)
                  => Finalize(view) = Finalized(expect[l])

C8_Witness ==
    \E l \in Lineages :
        /\ hist[l] = <<Used("withValue", ""), Used("options", "disable")>>
        /\ instances[l] = [value |-> "a",
                           log |-> <<LogEntry("withValue", "a"), LogEntry("disable", "")>>]
        /\ last.outcome.k = "return"

\* C9: reading a data member, whatever its value (an object and an array
\* included), returns the inner builder's value unmodified.
C9_DataUnmodified ==
    \A view \in Views : \A p \in DataNames :
        HandlerGet(view, Key(p)) = Succeeded(Member(instances[view.lineage], p))

\* C10: a call through the wrapper fails only with "already called" or
\* "already used", or with the failure the inner builder raised itself.
C10_OnlyTwoFailureKinds ==
    (last.op = "call" /\ last.outcome.k = "throw")
        => last.outcome.error \in DisciplineErrors \cup {InnerFailure}

C11_FailureState ==
    \A view \in Views :
        LET l == view.lineage
        IN  /\ \A m \in ({"withValue"} \ Consumed(l)) \cup {"addTag"} :
                  CallOutcome(view, Key(m), "") = Failed(InnerFailure)
            /\ \A g \in GroupNames \ Consumed(l) : \A i \in 1..Cardinality(GroupMembers) :
                  GroupCallOutcome(view, Key(g), i, "") = Failed(InnerFailure)

C11_FailureStep ==
    (last' # last /\ last'.op = "call" /\ last'.outcome.k = "throw"
        /\ last'.prop \in {"withValue", "addTag", "options"}
        /\ last'.outcome.error \notin DisciplineErrors)
    => /\ last'.outcome = Failed(InnerFailure)
       /\ handlers' = handlers
       /\ hist' = hist
       /\ views' = views

\* C11: when the inner builder's method fails during a dispatched call, the
\* caller gets that failure unmodified and the call state is unchanged: the
\* one-time method or group is not consumed and can be attempted again.
C11_InnerFailure == []C11_FailureState /\ [][C11_FailureStep]_vars

C11_Witness ==
    /\ last.op = "call"
    /\ last.prop = "options"
    /\ last.member = "disable"
    /\ last.outcome = Failed(InnerFailure)
    /\ handlers[last.lineage].called = {}
    /\ \E view \in Views :
          /\ view.lineage = last.lineage
          /\ GroupCallOutcome(view, Key("options"), 2, "a") = Succeeded(NextView)

C12_IndependentState ==
    /\ Len(instances) = Len(hist)
    /\ Len(handlers) = Len(hist)
    /\ \A v \in Views :
          LET l == v.lineage
          IN  /\ \A w \in Views : w.lineage # l =>
                    (w.target # v.target /\ w.handler # v.handler)
              /\ \A key \in PropKeys :
                    HandlerGet(v, key).k = "throw" => key.s \in Consumed(l)
              /\ Finalize(v) = Finalized(expect[l])
              /\ hist[l] = <<>> =>
                    /\ handlers[v.handler].called = {}
                    /\ instances[v.target] = [value |-> "", log |-> <<>>]

C12_IndependentStep ==
    /\ (last' # last /\ last'.op \in {"createBuilderFactory", "createBuilderFactoryFor"})
       => /\ Len(instances') = Len(instances) + 1
          /\ Len(handlers') = Len(handlers) + 1
          /\ Len(views') = Len(views) + 1
          /\ views'[Len(views')].target = Len(instances')
          /\ views'[Len(views')].handler = Len(handlers')
          /\ handlers'[Len(handlers')].called = {}
          /\ last'.outcome = Succeeded(NextView)
          /\ \A k \in 1..Len(instances) : instances'[k] = instances[k]
          /\ \A k \in 1..Len(handlers) : handlers'[k] = handlers[k]
    /\ (last' # last /\ last'.op \in {"call", "build"})
       => \A v \in Views : v.lineage # last'.lineage =>
             /\ instances'[v.target] = instances[v.target]
             /\ handlers'[v.handler] = handlers[v.handler]

\* C12: every factory invocation makes one new inner builder and one new
\* empty call state; builders of separate invocations are independent: a
\* consumption on one causes no rejection on another and leaves the other's
\* finalize result unchanged.
C12_Independent == []C12_IndependentState /\ [][C12_IndependentStep]_vars

C12_Witness ==
    /\ Len(hist) = 2
    /\ hist[1] = <<Used("withValue", "")>>
    /\ hist[2] = <<>>
    /\ last.op = "call" /\ last.lineage = 1
    /\ \E v \in Views :
          /\ v.lineage = 2
          /\ CallOutcome(v, Key("withValue"), "b") = Succeeded(NextView)
          /\ Finalize(v) = Finalized([value |-> "", log |-> <<>>])

C13_ExcludedState ==
    \A view \in Views :
        LET bm == FinalizeName(view.lineage)
            out == HandlerGet(view, Key(bm))
        IN  /\ out.k = "return"
            /\ out.value.t = "function"
            /\ bm \notin handlers[view.handler].called
            /\ Finalize(view).k = "return"
            /\ Finalize(view).value =
                  [t |-> "result", value |-> instances[view.target].value,
                   log |-> instances[view.target].log]

C13_ExcludedStep ==
    (last' # last /\ last'.op \in {"call", "build"}
        /\ last'.prop = FinalizeName(last'.lineage))
    => /\ last'.op = "build"
       /\ last'.outcome.k = "return"
       /\ last'.outcome.value.t = "result"
       /\ handlers' = handlers
       /\ views' = views

\* C13: the member named by the configured finalize name is outside the
\* one-time, repeatable and group classification: also when the name starts
\* with 'with', calling it never raises 'already called', never adds the
\* name to the call state, and returns the inner result, not a view.
C13_FinalizeExcluded == []C13_ExcludedState /\ [][C13_ExcludedStep]_vars

C13_Witness ==
    /\ last.op = "build"
    /\ last.prop = "withResult"
    /\ hist[last.lineage] = <<Used("addTag", "")>>
    /\ handlers[last.lineage].called = {}
    /\ last.outcome = Finalized([value |-> "", log |-> <<LogEntry("addTag", "b")>>])

C14_ViewState ==
    \A view \in Views : \A key \in PropKeys \ {Key(FinalizeName(view.lineage))} :
        \A got \in {HandlerGet(view, key)} :
            /\ (got.k = "return" /\ got.value.t = "function") =>
                  \A arg \in Args : \A out \in {RunOutcome(got.value, arg)} :
                      out.k = "return" => out.value = NextView
            /\ got.k = "return" =>
                  \A i \in GroupIndices(got.value), arg \in Args :
                      \A out \in {RunOutcome(got.value.entries[i].val, arg)} :
                          out.k = "return" => out.value = NextView

C14_ViewStep ==
    (last' # last /\ last'.op = "call" /\ last'.outcome.k = "return")
    => /\ Len(views') = Len(views) + 1
       /\ last'.outcome.value = [t |-> "proxy", id |-> Len(views')]
       /\ views'[Len(views')].lineage = last'.lineage
       /\ \E v \in Views :
             /\ v.lineage = last'.lineage
             /\ v.target = views'[Len(views')].target
             /\ v.handler = views'[Len(views')].handler

\* C14: every successful chain call returns a new wrapper view of the same
\* lineage, whatever the inner method returned (this, a value, nothing):
\* the caller never gets the inner builder itself.
C14_ReturnsView == []C14_ViewState /\ [][C14_ViewStep]_vars

C14_Witness ==
    /\ last.op = "call"
    /\ last.prop = "options"
    /\ last.member = "enable"
    /\ last.outcome = Succeeded([t |-> "proxy", id |-> Len(views)])
    /\ views[Len(views)].lineage = last.lineage
    /\ InnerApply(instances[last.lineage], Fn("options", "enable"), "a").ret
          = [t |-> "undefined"]

C15_RejectedStep ==
    (last' # last /\ last'.op = "call" /\ last'.outcome.k = "throw"
        /\ last'.outcome.error \in DisciplineErrors)
    => /\ instances' = instances
       /\ handlers' = handlers
       /\ views' = views
       /\ hist' = hist
       /\ \A v \in Views : Finalize(v)' = Finalize(v)

\* C15: a rejected access has no effect: the inner method is not executed,
\* the call state is unchanged, and finalize after the rejection returns
\* what finalize returned before it.
C15_RejectionNoEffect == [][C15_RejectedStep]_vars

C15_Witness ==
    /\ last.op = "call"
    /\ last.outcome = Failed(AlreadyCalled("withValue"))
    /\ instances[last.lineage] = [value |-> "a", log |-> <<LogEntry("withValue", "a")>>]
    /\ handlers[last.lineage].called = {"withValue"}
    /\ \A v \in Views : v.lineage = last.lineage =>
          Finalize(v) = Finalized([value |-> "a", log |-> <<LogEntry("withValue", "a")>>])

\* C16: the call state of a lineage holds exactly the one-time methods
\* whose dispatched call has completed and the groups of which a method's
\* dispatched call has completed; accesses, repeatable calls and finalize
\* add nothing.
C16_CallStateExact ==
    \A view \in Views :
        handlers[view.handler].called =
            (OneTimeNames(view.lineage) \cup GroupNames) \cap Consumed(view.lineage)

=============================================================================
